---- MODULE Spec2Model ----
(***************************************************************************)
(* Model of distribution/build.py: the recipe generator that turns the     *)
(* resolver's package lines into the install instructions of a             *)
(* Containerfile, and of scripts/gen_distro_docs.py: the generator of the   *)
(* README that names the llama-stack version of that Containerfile.        *)
(*                                                                         *)
(* Python str values are sequences of one-character strings, so that       *)
(* quoting, replacing, matching, splitting and sorting are computed        *)
(* character by character, as Python computes them.                        *)
(***************************************************************************)
EXTENDS Integers, Sequences, FiniteSets, TLC

VARIABLES
    pc,                   \* position in main() / in the per-line or per-token walk
    LLAMA_STACK_VERSION,  \* build.py:19, the configured version (environment override)
    stdout,               \* result.stdout of the resolver, build.py:124
    todo,                 \* lines of the for loop at build.py:133 not yet visited
    standard_deps,        \* build.py:128
    torch_deps,           \* build.py:129
    no_deps,              \* build.py:130
    no_cache,             \* build.py:131
    all_deps,             \* build.py:217
    dependencies,         \* build.py:286, the RecipeBody returned by get_dependencies
    llama_stack_install,  \* build.py:289
    template_file,        \* distribution/Containerfile.in on disk, None when absent
    containerfile,        \* distribution/Containerfile on disk
    exit_code,            \* exit status of the process, None while it runs
    line,                 \* build.py:134, the stripped line being parsed
    parts_list,           \* build.py:144
    packages,             \* build.py:145 .. 197
    flags,                \* build.py:146
    extra_index_url,      \* build.py:147
    full_cmd,             \* build.py:202 .. 213
    package,              \* one package token on its way through build.py:169 .. 196
    raw_package,          \* the token before the step that last rewrote it
    first_pass,           \* the token after its first complete normalization
    checking,             \* build.py:282, whether "Checking llama-stack version..." was printed
    installed_version,    \* build.py:74, None while `llama stack --version` has printed nothing
    run_yaml,             \* distribution/run.yaml on disk, None when absent
    build_yaml,           \* distribution/build.yaml on disk, None when absent
    ls_remote,            \* gen_distro_docs.py:16, what `git ls-remote` came to
    commit_hash,          \* gen_distro_docs.py:60
    repo_owner,           \* gen_distro_docs.py:57 and 214
    version,              \* gen_distro_docs.py:214
    version_link,         \* gen_distro_docs.py:224 .. 233
    version_display,      \* gen_distro_docs.py:226 .. 234
    readme                \* distribution/README.md on disk, None while not written

vars == <<pc, LLAMA_STACK_VERSION, stdout, todo, standard_deps, torch_deps, no_deps,
          no_cache, all_deps, dependencies, llama_stack_install, template_file,
          containerfile, exit_code, line, parts_list, packages, flags, extra_index_url,
          full_cmd, package, raw_package, first_pass, checking, installed_version,
          run_yaml, build_yaml, ls_remote, commit_hash, repo_owner, version, version_link,
          version_display, readme>>

\* What the run reads and never writes.
envVars == <<LLAMA_STACK_VERSION, template_file>>
\* The four buckets of get_dependencies.
bucketVars == <<standard_deps, torch_deps, no_deps, no_cache>>
\* The locals of one iteration of the for loop.
lineVars == <<line, parts_list, packages, flags, extra_index_url, full_cmd>>
\* One package token on its own.
tokenVars == <<package, raw_package, first_pass>>
\* What the version check of main() leaves behind.
versionVars == <<checking, installed_version>>
\* The files gen_distro_docs.py reads beside the Containerfile.
yamlVars == <<run_yaml, build_yaml>>
\* The locals of extract_llama_stack_version and gen_distro_docs, and the README.
docVars == <<ls_remote, commit_hash, repo_owner, version, version_link, version_display,
             readme>>

-----------------------------------------------------------------------------
(* Python values *)

\* Python's None: no str is equal to it (a str holds one-character strings only).
None == <<"<None>">>

\* The characters U+0020 .. U+007E in code point order; the grave accent, which no
\* string of the model holds, is written by its code point.
Printable ==
    <<" ", "!", "\"", "#", "$", "%", "&", "'", "(", ")", "*", "+", ",", "-", ".", "/",
      "0", "1", "2", "3", "4", "5", "6", "7", "8", "9", ":", ";", "<", "=", ">", "?",
      "@", "A", "B", "C", "D", "E", "F", "G", "H", "I", "J", "K", "L", "M", "N", "O",
      "P", "Q", "R", "S", "T", "U", "V", "W", "X", "Y", "Z", "[", "\\", "]", "^", "_",
      "<U+0060>", "a", "b", "c", "d", "e", "f", "g", "h", "i", "j", "k", "l", "m", "n", "o",
      "p", "q", "r", "s", "t", "u", "v", "w", "x", "y", "z", "{", "|", "}", "~">>

Range(s) == {s[k] : k \in 1..Len(s)}

\* ord(c) for the characters of the model: tab, line feed, carriage return and
\* the printable ASCII characters.
Ord ==
    [c \in Range(Printable) \cup {"\t", "\n", "\r"} |->
        IF c = "\t" THEN 9
        ELSE IF c = "\n" THEN 10
        ELSE IF c = "\r" THEN 13
        ELSE 31 + (CHOOSE k \in 1..Len(Printable) : Printable[k] = c)]

\* str.isspace() on the characters of the model.
IsSpace(c) == c \in {" ", "\t", "\n", "\r"}

\* The least and the greatest of a non-empty set of numbers.
Least(S) == CHOOSE x \in S : \A y \in S : x <= y
Greatest(S) == CHOOSE x \in S : \A y \in S : y <= x

\* a < b on str: lexicographic by code point, a proper prefix first.
StrLess(a, b) ==
    LET differ == {k \in 1..Len(a) : k <= Len(b) /\ a[k] # b[k]}
    IN  IF differ = {} THEN Len(a) < Len(b)
        ELSE Ord[a[Least(differ)]] < Ord[b[Least(differ)]]

StrLeq(a, b) == a = b \/ StrLess(a, b)

RECURSIVE Insert(_, _)
Insert(x, s) ==
    IF s = <<>> THEN <<x>>
    ELSE IF StrLess(x, Head(s)) THEN <<x>> \o s
    ELSE <<Head(s)>> \o Insert(x, Tail(s))

RECURSIVE Sorted(_)
\* sorted(list of str): duplicates are kept.
Sorted(s) == IF s = <<>> THEN <<>> ELSE Insert(Head(s), Sorted(Tail(s)))

\* sorted(set(list of str)).
SortedSet(s) ==
    LET RECURSIVE Emit(_)
        Emit(S) ==
            IF S = {} THEN <<>>
            ELSE LET m == CHOOSE x \in S : \A y \in S : StrLeq(x, y)
                 IN  <<m>> \o Emit(S \ {m})
    IN  Emit(Range(s))

RECURSIVE Join(_, _)
\* sep.join(list of str)
Join(sep, s) ==
    IF s = <<>> THEN <<>>
    ELSE IF Len(s) = 1 THEN s[1]
    ELSE s[1] \o sep \o Join(sep, Tail(s))

\* s[k:k+len(sub)] == sub
MatchAt(s, sub, k) ==
    /\ k + Len(sub) - 1 <= Len(s)
    /\ \A j \in 1..Len(sub) : s[k + j - 1] = sub[j]

\* sub in s
Contains(s, sub) == \E k \in 1..(Len(s) + 1) : MatchAt(s, sub, k)

\* s.startswith(sub)
StartsWith(s, sub) == MatchAt(s, sub, 1)

RECURSIVE ReplaceFrom(_, _, _, _)
\* s[k:] with the occurrences of old replaced, leftmost first.
ReplaceFrom(s, old, new, k) ==
    LET found == {j \in k..Len(s) : MatchAt(s, old, j)}
    IN  IF found = {} THEN SubSeq(s, k, Len(s))
        ELSE SubSeq(s, k, Least(found) - 1) \o new
                 \o ReplaceFrom(s, old, new, Least(found) + Len(old))

\* s.replace(old, new) for a non-empty old: every occurrence, left to right,
\* without overlap.
Replace(s, old, new) == ReplaceFrom(s, old, new, 1)

\* The indices of the characters of s that are not whitespace.
Inked(s) == {k \in 1..Len(s) : ~IsSpace(s[k])}

\* s.rstrip()
RStrip(s) == IF Inked(s) = {} THEN <<>> ELSE SubSeq(s, 1, Greatest(Inked(s)))

\* s.strip()
Strip(s) ==
    IF Inked(s) = {} THEN <<>> ELSE SubSeq(s, Least(Inked(s)), Greatest(Inked(s)))

RECURSIVE SplitFrom(_, _)
\* The lines of s[k:].
SplitFrom(s, k) ==
    LET breaks == {j \in k..Len(s) : s[j] \in {"\n", "\r"}}
        b == Least(breaks)
    IN  IF k > Len(s) THEN <<>>
        ELSE IF breaks = {} THEN <<SubSeq(s, k, Len(s))>>
        ELSE IF s[b] = "\r" /\ b < Len(s) /\ s[b + 1] = "\n"
            THEN <<SubSeq(s, k, b - 1)>> \o SplitFrom(s, b + 2)
        ELSE <<SubSeq(s, k, b - 1)>> \o SplitFrom(s, b + 1)

\* s.splitlines(): the line breaks of the model are \n, \r and \r\n; the breaks
\* are dropped and a final break opens no empty last line.
SplitLines(s) == SplitFrom(s, 1)

-----------------------------------------------------------------------------
(* shlex.split(s): posix mode, whitespace_split, no comment characters *)

ShlexWhitespace == {" ", "\t", "\r", "\n"}
ShlexQuotes == {"'", "\""}
ShlexEscape == "\\"
\* shlex.escapedquotes: the quote inside which a backslash escapes.
ShlexEscapedQuotes == {"\""}

\* What a call that may raise gives back: the value, or the exception raised.
Returned(v) == [raised |-> "", value |-> v]
Raised(e) == [raised |-> e, value |-> <<>>]

\* The result of a call that was not made.
NoLookup == Raised("not called")

RECURSIVE ShlexFrom(_, _, _, _, _, _, _)
\* shlex.read_token over s[k:], token by token: state is " " between tokens,
\* "a" inside a word, a quote character inside quotes, the backslash after one.
\* The characters that leave the state as it is (whitespace between tokens, word
\* characters inside a word, quoted text) are taken in one run up to the next
\* character that changes it.
ShlexFrom(s, k, state, escapedstate, token, quoted, out) ==
    LET rest == k..Len(s)
        stops ==
            IF state = " " THEN {j \in rest : s[j] \notin ShlexWhitespace}
            ELSE IF state = "a"
                THEN {j \in rest : s[j] \in ShlexWhitespace \cup ShlexQuotes \cup {ShlexEscape}}
            ELSE IF state \in ShlexQuotes
                THEN {j \in rest : \/ s[j] = state
                                   \/ s[j] = ShlexEscape /\ state \in ShlexEscapedQuotes}
            ELSE rest
        j == Least(stops)
        c == s[j]
        run == IF state = " " THEN <<>> ELSE SubSeq(s, k, j - 1)
        tail == IF state = " " THEN <<>> ELSE SubSeq(s, k, Len(s))
    IN  IF stops = {} THEN
            IF state \in ShlexQuotes THEN Raised("ValueError: No closing quotation")
            ELSE IF state = ShlexEscape THEN Raised("ValueError: No escaped character")
            ELSE IF state = "a" /\ (token \o tail # <<>> \/ quoted)
                THEN Returned(Append(out, token \o tail))
            ELSE Returned(out)
        ELSE IF state = " " THEN
            IF c = ShlexEscape THEN ShlexFrom(s, j + 1, c, "a", <<>>, FALSE, out)
            ELSE IF c \in ShlexQuotes THEN ShlexFrom(s, j + 1, c, " ", <<>>, FALSE, out)
            ELSE ShlexFrom(s, j + 1, "a", " ", <<c>>, FALSE, out)
        ELSE IF state \in ShlexQuotes THEN
            IF c = state
                THEN ShlexFrom(s, j + 1, "a", escapedstate, token \o run, TRUE, out)
            ELSE ShlexFrom(s, j + 1, c, state, token \o run, TRUE, out)
        ELSE IF state = ShlexEscape THEN
            IF escapedstate \in ShlexQuotes /\ c # state /\ c # escapedstate
                THEN ShlexFrom(s, j + 1, escapedstate, escapedstate,
                               token \o <<state, c>>, quoted, out)
            ELSE ShlexFrom(s, j + 1, escapedstate, escapedstate,
                           Append(token, c), quoted, out)
        ELSE \* state = "a"
            IF c \in ShlexWhitespace THEN
                IF token \o run # <<>> \/ quoted
                    THEN ShlexFrom(s, j + 1, " ", " ", <<>>, FALSE,
                                   Append(out, token \o run))
                ELSE ShlexFrom(s, j + 1, " ", escapedstate, token \o run, quoted, out)
            ELSE IF c \in ShlexQuotes
                THEN ShlexFrom(s, j + 1, c, escapedstate, token \o run, quoted, out)
            ELSE ShlexFrom(s, j + 1, c, "a", token \o run, quoted, out)

\* ShlexSplit with the ValueError swallowed: a malformed line gives no tokens.
ShlexSplitLenient(s) ==
    LET r == ShlexFrom(s, 1, " ", " ", <<>>, FALSE, <<>>)
    IN  IF r.raised # "" THEN Returned(<<>>) ELSE r

\* shlex.split(s): the tokens, or the ValueError of malformed quoting.
ShlexSplit(s) == ShlexFrom(s, 1, " ", " ", <<>>, FALSE, <<>>)

-----------------------------------------------------------------------------
(* get_dependencies: one line of the resolver *)

EXTRA_INDEX_URL ==
    <<"-", "-", "e", "x", "t", "r", "a", "-", "i", "n", "d", "e", "x", "-", "u", "r", "l">>
INDEX_URL == <<"-", "-", "i", "n", "d", "e", "x", "-", "u", "r", "l">>
NO_DEPS == <<"-", "-", "n", "o", "-", "d", "e", "p", "s">>
NO_CACHE == <<"-", "-", "n", "o", "-", "c", "a", "c", "h", "e">>

\* x in list
InList(x, s) == \E k \in 1..Len(s) : s[k] = x

\* bool(x) of a str or None
Truthy(x) == x # None /\ x # <<>>

RECURSIVE ParseParts(_, _, _, _, _)
\* The while loop over parts_list; i counts from 1 here, from 0 in the source.
ParseParts(parts, i, pkgs, flgs, url) ==
    IF i > Len(parts) THEN [packages |-> pkgs, flags |-> flgs, extra_index_url |-> url]
    ELSE IF parts[i] = EXTRA_INDEX_URL /\ i + 1 <= Len(parts)
        THEN ParseParts(parts, i + 2, pkgs, flgs \o <<parts[i], parts[i + 1]>>, parts[i + 1])
    ELSE IF parts[i] = INDEX_URL /\ i + 1 <= Len(parts)
        THEN ParseParts(parts, i + 2, pkgs, flgs \o <<parts[i], parts[i + 1]>>, url)
    ELSE IF parts[i] \in {NO_DEPS, NO_CACHE}
        THEN ParseParts(parts, i + 1, pkgs, Append(flgs, parts[i]), url)
    ELSE ParseParts(parts, i + 1, Append(pkgs, parts[i]), flgs, url)

PYMILVUS == <<"p", "y", "m", "i", "l", "v", "u", "s">>
MILVUS_LITE == <<"[", "m", "i", "l", "v", "u", "s", "-", "l", "i", "t", "e", "]">>

\* Add quotes to packages with > or <.
QuotePackage(p) ==
    IF Contains(p, <<">">>) \/ Contains(p, <<"<">>) THEN <<"'">> \o p \o <<"'">> ELSE p

\* Modify pymilvus package to include milvus-lite extra.
MilvusPackage(p) ==
    IF Contains(p, PYMILVUS) /\ ~Contains(p, MILVUS_LITE)
        THEN Replace(p, PYMILVUS, PYMILVUS \o MILVUS_LITE)
    ELSE p

Letters ==
    {"a", "b", "c", "d", "e", "f", "g", "h", "i", "j", "k", "l", "m", "n", "o", "p", "q",
     "r", "s", "t", "u", "v", "w", "x", "y", "z", "A", "B", "C", "D", "E", "F", "G", "H",
     "I", "J", "K", "L", "M", "N", "O", "P", "Q", "R", "S", "T", "U", "V", "W", "X", "Y",
     "Z"}
Digits == {"0", "1", "2", "3", "4", "5", "6", "7", "8", "9"}
\* [a-zA-Z_]
IdentStart == Letters \cup {"_"}
\* [a-zA-Z0-9_]
IdentChar == Letters \cup Digits \cup {"_"}

\* (==|>=|<=|>|<|~=|!=), in the order the alternation tries them
Operators ==
    <<(<<"=", "=">>), (<<">", "=">>), (<<"<", "=">>), (<<">">>), (<<"<">>),
      (<<"~", "=">>), (<<"!", "=">>)>>

\* The operator the alternation matches at s[k], <<>> when none does.
OperatorAt(s, k) ==
    IF \E n \in 1..Len(Operators) : MatchAt(s, Operators[n], k)
        THEN Operators[CHOOSE n \in 1..Len(Operators) :
                           /\ MatchAt(s, Operators[n], k)
                           /\ \A m \in 1..(n - 1) : ~MatchAt(s, Operators[m], k)]
    ELSE <<>>

\* The last index of the longest run of [a-zA-Z0-9_] that starts at s[k].
IdentEnd(s, k) ==
    Greatest({e \in k..Len(s) : \A j \in k..e : s[j] \in IdentChar})

\* Whether \.([a-zA-Z_][a-zA-Z0-9_]*)(==|>=|<=|>|<|~=|!=) matches at s[k]. No
\* operator starts with an identifier character, so only the longest identifier
\* can be followed by one.
ExtraMatchAt(s, k) ==
    /\ s[k] = "."
    /\ k < Len(s)
    /\ s[k + 1] \in IdentStart
    /\ OperatorAt(s, IdentEnd(s, k + 1) + 1) # <<>>

RECURSIVE ExtrasFrom(_, _)
\* s[k:] with the matches replaced by [\1]\2, leftmost first.
ExtrasFrom(s, k) ==
    LET found == {j \in k..Len(s) : ExtraMatchAt(s, j)}
        m == Least(found)
        e == IdentEnd(s, m + 1)
        op == OperatorAt(s, e + 1)
    IN  IF found = {} THEN SubSeq(s, k, Len(s))
        ELSE SubSeq(s, k, m - 1) \o <<"[">> \o SubSeq(s, m + 1, e) \o <<"]">> \o op
                 \o ExtrasFrom(s, e + 1 + Len(op))

\* re.sub(r"\.([a-zA-Z_][a-zA-Z0-9_]*)(==|>=|<=|>|<|~=|!=)", r"[\1]\2", p)
ExtrasPackage(p) == ExtrasFrom(p, 1)

\* The three rewrites of one package, in the order of the source.
NormalizePackage(p) == ExtrasPackage(MilvusPackage(QuotePackage(p)))

\* [normalize(package) for package in packages], the three comprehensions as one
NormalizeEach(pkgs) == [k \in 1..Len(pkgs) |-> NormalizePackage(pkgs[k])]

\* NormalizePackages without the second sorted(set(packages)).
NormalizePackagesOnce(pkgs) == NormalizeEach(SortedSet(pkgs))

\* packages as rewritten between the two sorted(set(...)).
NormalizePackages(pkgs) == SortedSet(NormalizeEach(SortedSet(pkgs)))

cmd_parts ==
    <<(<<"R", "U", "N">>), (<<"u", "v">>), (<<"p", "i", "p">>),
      (<<"i", "n", "s", "t", "a", "l", "l">>)>>

\* " \\\n    ", the continuation between the packages of a standard install
Continuation == <<" ", "\\", "\n", " ", " ", " ", " ">>

\* The bucket the flags send the instruction to.
Category(flgs, url) ==
    IF Truthy(url) \/ InList(INDEX_URL, flgs) THEN "torch_deps"
    ELSE IF InList(NO_DEPS, flgs) THEN "no_deps"
    ELSE IF InList(NO_CACHE, flgs) THEN "no_cache"
    ELSE "standard_deps"

\* full_cmd as built in the branch of the category.
FullCmd(flgs, url, pkgs) ==
    IF Category(flgs, url) = "standard_deps"
        THEN Join(<<" ">>, cmd_parts) \o Continuation \o Join(Continuation, pkgs)
    ELSE Join(<<" ">>, cmd_parts \o flgs \o pkgs)

\* The body of the for loop for one stripped, non-blank line.
ProcessLine(l) ==
    LET split == ShlexSplit(l)
        parsed == ParseParts(split.value, 1, <<>>, <<>>, None)
        pkgs == NormalizePackages(parsed.packages)
    IN  IF split.raised # "" THEN Raised(split.raised)
        ELSE Returned([category |-> Category(parsed.flags, parsed.extra_index_url),
                       full_cmd |-> FullCmd(parsed.flags, parsed.extra_index_url, pkgs)])

-----------------------------------------------------------------------------
(* get_dependencies: the assembly of the RecipeBody *)

PINNED_DEPENDENCIES ==
    <<(<<"'", "k", "f", "p", "-", "k", "u", "b", "e", "r", "n", "e", "t", "e", "s", "=",
         "=", "2", ".", "1", "4", ".", "6", "'">>),
      (<<"'", "p", "y", "a", "r", "r", "o", "w", ">", "=", "2", "1", ".", "0", ".", "0",
         "'">>),
      (<<"'", "b", "o", "t", "o", "c", "o", "r", "e", "=", "=", "1", ".", "3", "5", ".",
         "8", "8", "'">>),
      (<<"'", "b", "o", "t", "o", "3", "=", "=", "1", ".", "3", "5", ".", "8", "8", "'">>),
      (<<"'", "a", "i", "o", "b", "o", "t", "o", "c", "o", "r", "e", "=", "=", "2", ".",
         "1", "6", ".", "1", "'">>),
      (<<"'", "i", "b", "m", "-", "c", "o", "s", "-", "s", "d", "k", "-", "c", "o", "r",
         "e", "=", "=", "2", ".", "1", "4", ".", "2", "'">>),
      (<<"'", "i", "b", "m", "-", "c", "o", "s", "-", "s", "d", "k", "=", "=", "2", ".",
         "1", "4", ".", "2", "'">>)>>

\* f"RUN uv pip install --upgrade \\\n    {pinned_packages}"
pinned_cmd ==
    <<"R", "U", "N", " ", "u", "v", " ", "p", "i", "p", " ", "i", "n", "s", "t", "a", "l",
      "l", " ", "-", "-", "u", "p", "g", "r", "a", "d", "e", " ", "\\", "\n", " ", " ",
      " ", " ">> \o Join(Continuation, PINNED_DEPENDENCIES)

\* AllDeps with the no-deps installs ahead of the extra-index installs.
AllDepsNoDepsFirst(std, torch, nodeps, nocache) ==
    (IF PINNED_DEPENDENCIES # <<>> THEN <<pinned_cmd>> ELSE <<>>)
        \o Sorted(std) \o Sorted(nodeps) \o Sorted(torch) \o Sorted(nocache)

\* AllDeps with the buckets in the order the lines filled them.
AllDepsUnsorted(std, torch, nodeps, nocache) ==
    (IF PINNED_DEPENDENCIES # <<>> THEN <<pinned_cmd>> ELSE <<>>)
        \o std \o torch \o nodeps \o nocache

\* all_deps: the pinned instruction, then the four sorted buckets.
AllDeps(std, torch, nodeps, nocache) ==
    (IF PINNED_DEPENDENCIES # <<>> THEN <<pinned_cmd>> ELSE <<>>)
        \o Sorted(std) \o Sorted(torch) \o Sorted(nodeps) \o Sorted(nocache)

RECURSIVE Loop(_, _)
\* The for loop over the lines, from the buckets b: the buckets at its end, or
\* the exception that leaves it.
Loop(ls, b) ==
    IF ls = <<>> THEN Returned(b)
    ELSE LET l == Strip(Head(ls)) IN
        IF l = <<>> THEN Loop(Tail(ls), b)
        ELSE LET r == ProcessLine(l) IN
            IF r.raised # "" THEN Raised(r.raised)
            ELSE Loop(Tail(ls),
                      [b EXCEPT ![r.value.category] = Append(@, r.value.full_cmd)])

EmptyBuckets ==
    [standard_deps |-> <<>>, torch_deps |-> <<>>, no_deps |-> <<>>, no_cache |-> <<>>]

\* get_dependencies() on the resolver's output: the RecipeBody, or the exception
\* that leaves the function.
get_dependencies(out) ==
    LET r == Loop(SplitLines(out), EmptyBuckets) IN
        IF r.raised # "" THEN Raised(r.raised)
        ELSE Returned(Join(<<"\n">>,
                           AllDeps(r.value.standard_deps, r.value.torch_deps,
                                   r.value.no_deps, r.value.no_cache)))

-----------------------------------------------------------------------------
(* The source install and the version *)

RHAI == <<"+", "r", "h", "a", "i">>

\* is_install_from_source without the test for the build tag.
HasNoDot(v) == ~Contains(v, <<".">>)

\* "." not in llama_stack_version or "+rhai" in llama_stack_version
is_install_from_source(v) == ~Contains(v, <<".">>) \/ Contains(v, RHAI)

source_install_command ==
    <<"R", "U", "N", " ", "u", "v", " ", "p", "i", "p", " ", "i", "n", "s", "t", "a", "l",
      "l", " ", "-", "-", "n", "o", "-", "c", "a", "c", "h", "e", " ", "-", "-", "n", "o",
      "-", "d", "e", "p", "s", " ", "g", "i", "t", "+", "h", "t", "t", "p", "s", ":", "/",
      "/", "g", "i", "t", "h", "u", "b", ".", "c", "o", "m", "/", "o", "p", "e", "n", "d",
      "a", "t", "a", "h", "u", "b", "-", "i", "o", "/", "l", "l", "a", "m", "a", "-", "s",
      "t", "a", "c", "k", ".", "g", "i", "t", "@">>

\* The install block for a source install, None (the function falls off its
\* end) for a released version.
get_llama_stack_install(v) ==
    IF is_install_from_source(v) THEN RStrip(source_install_command \o v) ELSE None

-----------------------------------------------------------------------------
(* generate_containerfile *)

DEPENDENCIES_FIELD == <<"d", "e", "p", "e", "n", "d", "e", "n", "c", "i", "e", "s">>
INSTALL_SOURCE_FIELD ==
    <<"l", "l", "a", "m", "a", "_", "s", "t", "a", "c", "k", "_", "i", "n", "s", "t", "a",
      "l", "l", "_", "s", "o", "u", "r", "c", "e">>

warning ==
    <<"#", " ", "W", "A", "R", "N", "I", "N", "G", ":", " ", "T", "h", "i", "s", " ", "f",
      "i", "l", "e", " ", "i", "s", " ", "a", "u", "t", "o", "-", "g", "e", "n", "e", "r",
      "a", "t", "e", "d", ".", " ", "D", "o", " ", "n", "o", "t", " ", "m", "o", "d", "i",
      "f", "y", " ", "i", "t", " ", "m", "a", "n", "u", "a", "l", "l", "y", ".", "\n", "#",
      " ", "G", "e", "n", "e", "r", "a", "t", "e", "d", " ", "b", "y", ":", " ", "d", "i",
      "s", "t", "r", "i", "b", "u", "t", "i", "o", "n", "/", "b", "u", "i", "l", "d", ".",
      "p", "y", "\n", "\n">>

RECURSIVE FormatFrom(_, _, _, _, _)
\* str.format over the template from s[k], acc the text so far: {{ and }} are
\* the literal braces, {dependencies} and {llama_stack_install_source} are
\* replaced, any other field and any unpaired brace raises. The templates of the
\* model hold no field with a conversion, a format spec, an attribute or an index.
FormatFrom(s, k, deps, src, acc) ==
    LET braces == {j \in k..Len(s) : s[j] \in {"{", "}"}}
        b == Least(braces)
        text == acc \o SubSeq(s, k, b - 1)
        closes == {j \in (b + 1)..Len(s) : s[j] = "}"}
        name == SubSeq(s, b + 1, Least(closes) - 1)
    IN  IF braces = {} THEN Returned(acc \o SubSeq(s, k, Len(s)))
        ELSE IF b < Len(s) /\ s[b + 1] = s[b]
            THEN FormatFrom(s, b + 2, deps, src, Append(text, s[b]))
        ELSE IF s[b] = "}" \/ closes = {} THEN Raised("ValueError")
        ELSE IF name = DEPENDENCIES_FIELD
            THEN FormatFrom(s, Least(closes) + 1, deps, src, text \o deps)
        ELSE IF name = INSTALL_SOURCE_FIELD
            THEN FormatFrom(s, Least(closes) + 1, deps, src, text \o src)
        ELSE IF Contains(name, <<"{">>) THEN Raised("ValueError")
        ELSE IF name = <<>> \/ name[1] \in Digits THEN Raised("IndexError")
        ELSE Raised("KeyError")

\* template_content.format(dependencies=deps, llama_stack_install_source=src)
Format(s, deps, src) == FormatFrom(s, 1, deps, src, <<>>)

RECURSIVE NonEmpty(_)
\* NonBlank with `if line` for `if line.strip()`.
NonEmpty(ls) ==
    IF ls = <<>> THEN <<>>
    ELSE IF Head(ls) # <<>> THEN <<Head(ls)>> \o NonEmpty(Tail(ls))
    ELSE NonEmpty(Tail(ls))

RECURSIVE NonBlank(_)
\* [line for line in lines if line.strip()]
NonBlank(ls) ==
    IF ls = <<>> THEN <<>>
    ELSE IF Strip(Head(ls)) # <<>> THEN <<Head(ls)>> \o NonBlank(Tail(ls))
    ELSE NonBlank(Tail(ls))

\* Remove any blank lines that result from empty substitutions.
RemoveBlankLines(content) == Join(<<"\n">>, NonBlank(SplitLines(content))) \o <<"\n">>

\* The text generate_containerfile writes for a template it could read, or the
\* exception str.format raises.
containerfile_content(template, deps, install) ==
    LET f == Format(template, RStrip(deps), IF Truthy(install) THEN install ELSE <<>>)
    IN  IF f.raised # "" THEN Raised(f.raised)
        ELSE Returned(RemoveBlankLines(warning \o f.value))

-----------------------------------------------------------------------------
(* The inputs of the model *)

\* How many lines the resolver prints.
MaxLines == 2
\* How many tokens a generated directive line holds.
MaxTokens == 3
\* How many pieces a generated package token is made of.
MaxPieces == 4
\* How many pieces a generated template is made of.
MaxTemplatePieces == 3

RECURSIVE Concat(_)
\* "".join(list of str)
Concat(s) == IF s = <<>> THEN <<>> ELSE Head(s) \o Concat(Tail(s))

\* The sequences of at most n elements of S.
SeqsUpTo(S, n) == UNION {[1..k -> S] : k \in 0..n}

CURRENT_LLAMA_STACK_VERSION == <<"v", "0", ".", "4", ".", "0", "+", "r", "h", "a", "i", "0">>

\* LLAMA_STACK_VERSION as the environment may set it: the default, a released
\* version, a commit.
Versions ==
    {CURRENT_LLAMA_STACK_VERSION,
     <<"0", ".", "4", ".", "0">>,
     <<"a", "b", "c", "1", "2", "3">>}

\* What `llama stack --version` prints.
InstalledVersionOutputs ==
    {<<"0", ".", "4", ".", "0", "\n">>, <<"0", ".", "3", ".", "9", "\n">>}

\* Lines of the resolver: standard, extra index, no-deps and no-cache directives,
\* a blank line, a line inside whitespace, a line with an unterminated quote.
ResolverLines ==
    {<<"b", "=", "=", "1", " ", "a", "=", "=", "1">>,
     <<"a", ">", "=", "1">>,
     <<"t", "=", "=", "2", " ", "-", "-", "e", "x", "t", "r", "a", "-", "i", "n", "d", "e",
       "x", "-", "u", "r", "l", " ", "u">>,
     <<"-", "-", "i", "n", "d", "e", "x", "-", "u", "r", "l", " ", "u", " ", "t", "=", "=",
       "1">>,
     <<"n", "=", "=", "1", " ", "-", "-", "n", "o", "-", "d", "e", "p", "s">>,
     <<"m", "=", "=", "1", " ", "-", "-", "n", "o", "-", "d", "e", "p", "s">>,
     <<"c", "=", "=", "1", " ", "-", "-", "n", "o", "-", "c", "a", "c", "h", "e">>,
     <<" ", "c", "=", "=", "2", " ", "-", "-", "n", "o", "-", "c", "a", "c", "h", "e", " ">>,
     <<>>,
     <<"'", "x">>}

\* The text of the lines, each ended by a line feed.
Text(ls) == Concat([k \in 1..Len(ls) |-> ls[k] \o <<"\n">>])

ResolverOutputs == {Text(ls) : ls \in SeqsUpTo(ResolverLines, MaxLines)}

\* The tokens a generated directive line is made of, as the resolver writes
\* them: packages (two that differ in case only, two that normalize to the same
\* string), the four flags, a URL, an empty quoted string, an unterminated quote.
DirectiveTokens ==
    {<<"a", "=", "=", "1">>,
     <<"A", "=", "=", "1">>,
     <<"x", ".", "y", "=", "=", "1">>,
     <<"x", "[", "y", "]", "=", "=", "1">>,
     EXTRA_INDEX_URL, INDEX_URL, NO_DEPS, NO_CACHE,
     <<"u">>,
     <<"'", "'">>,
     <<"'", "x">>}

DirectiveLines == {Join(<<" ">>, ts) : ts \in SeqsUpTo(DirectiveTokens, MaxTokens)}

\* The pieces a generated package token is made of.
PackagePieces ==
    {PYMILVUS, MILVUS_LITE, <<"[", "x", "]">>, <<"-", "m", "o", "d", "e", "l">>,
     <<"a", "=", "=", "1">>, <<"=", "=">>, <<"=">>, <<">">>, <<".">>, <<"a">>, <<"1">>}

PackageTokens == {Concat(ps) : ps \in SeqsUpTo(PackagePieces, MaxPieces)}

\* The pieces a generated template is made of.
TemplatePieces ==
    {<<"{">> \o DEPENDENCIES_FIELD \o <<"}">>, <<"{">> \o INSTALL_SOURCE_FIELD \o <<"}">>,
     <<"\n">>, <<"\r">>, <<" ">>, <<"x">>, <<"{">>, <<"}">>}

Templates == {Concat(ps) : ps \in SeqsUpTo(TemplatePieces, MaxTemplatePieces)}

\* The template of a run of main(): both placeholders on lines of their own.
ContainerfileIn ==
    <<"F", "R", "O", "M", " ", "x", "\n", "{">> \o DEPENDENCIES_FIELD \o <<"}", "\n", "{">>
        \o INSTALL_SOURCE_FIELD \o <<"}", "\n", "U", "S", "E", "R", " ", "1", "\n">>

\* RecipeBody texts for a call of generate_containerfile on its own: empty, one
\* instruction, instructions around a whitespace-only line with a final line feed.
RecipeBodies ==
    {<<>>,
     <<"R", "U", "N", " ", "a">>,
     <<"R", "U", "N", " ", "a", " ", "\\", "\n", " ", " ", " ", " ", "\n", "R", "U", "N",
       " ", "b", "\n">>}

\* Source-install blocks for a call of generate_containerfile on its own.
InstallBlocks == {None, <<>>, <<"R", "U", "N", " ", "s">>}

\* distribution/Containerfile as an earlier run left it.
PreviousContainerfile == <<"o", "l", "d", "\n">>

-----------------------------------------------------------------------------
(* main() *)

\* Nothing of get_dependencies has run.
NoLoop ==
    /\ stdout = None
    /\ todo = <<>>
    /\ standard_deps = <<>>
    /\ torch_deps = <<>>
    /\ no_deps = <<>>
    /\ no_cache = <<>>
    /\ all_deps = <<>>
    /\ line = None
    /\ parts_list = <<>>
    /\ packages = <<>>
    /\ flags = <<>>
    /\ extra_index_url = None
    /\ full_cmd = None

NoToken == package = None /\ raw_package = None /\ first_pass = None

\* check_llama_stack_version() was not called.
NoVersionCheck == checking = FALSE /\ installed_version = None

\* gen_distro_docs.py has not run: none of its locals is bound, no README.
NoDocs ==
    /\ ls_remote = NoLookup
    /\ commit_hash = None
    /\ repo_owner = None
    /\ version = None
    /\ version_link = None
    /\ version_display = None
    /\ readme = None

\* build.py reads neither run.yaml nor build.yaml.
NoYaml == run_yaml = None /\ build_yaml = None

Init ==
    /\ pc = "check_uv"
    /\ LLAMA_STACK_VERSION \in Versions
    /\ template_file \in {None, ContainerfileIn}
    /\ containerfile = PreviousContainerfile
    /\ dependencies = None
    /\ llama_stack_install = None
    /\ exit_code = None
    /\ NoLoop
    /\ NoToken
    /\ NoVersionCheck
    /\ NoYaml
    /\ NoDocs

\* sys.exit(code), and an exception nothing catches: the process ends.
Exit(code) == pc' = "exited" /\ exit_code' = code

\* check_command_installed("uv")
CheckUv ==
    /\ pc = "check_uv"
    /\ \E found \in BOOLEAN :
        IF found THEN pc' = "install_llama_stack_from_source" /\ UNCHANGED exit_code
        ELSE Exit(1)
    /\ UNCHANGED <<envVars, versionVars, yamlVars, docVars, stdout, todo, bucketVars, all_deps, dependencies,
                   llama_stack_install, containerfile, lineVars, tokenVars>>

\* install_llama_stack_from_source(LLAMA_STACK_VERSION)
InstallLlamaStackFromSource ==
    /\ pc = "install_llama_stack_from_source"
    /\ \E installed \in BOOLEAN :
        IF installed THEN pc' = "check_llama" /\ UNCHANGED exit_code
        ELSE Exit(1)
    /\ UNCHANGED <<envVars, versionVars, yamlVars, docVars, stdout, todo, bucketVars, all_deps, dependencies,
                   llama_stack_install, containerfile, lineVars, tokenVars>>

\* check_command_installed("llama", "llama-stack-client")
CheckLlama ==
    /\ pc = "check_llama"
    /\ \E found \in BOOLEAN :
        IF found THEN pc' = "check_llama_stack_version" /\ UNCHANGED exit_code
        ELSE Exit(1)
    /\ UNCHANGED <<envVars, versionVars, yamlVars, docVars, stdout, todo, bucketVars, all_deps, dependencies,
                   llama_stack_install, containerfile, lineVars, tokenVars>>

RECURSIVE SplitOn(_, _, _)
\* s[k:].split(sep)
SplitOn(s, sep, k) ==
    LET found == {j \in k..Len(s) : MatchAt(s, sep, j)}
    IN  IF found = {} THEN <<SubSeq(s, k, Len(s))>>
        ELSE <<SubSeq(s, k, Least(found) - 1)>> \o SplitOn(s, sep, Least(found) + Len(sep))

LLAMA_STACK_EQ == <<"l", "l", "a", "m", "a", "-", "s", "t", "a", "c", "k", "=", "=">>

BASE_REQUIREMENTS(v) == <<LLAMA_STACK_EQ \o v>>

\* The version the first llama-stack requirement names, None without one.
expected_version(v) ==
    LET reqs == BASE_REQUIREMENTS(v)
        named == {k \in 1..Len(reqs) : StartsWith(reqs[k], LLAMA_STACK_EQ)}
    IN  IF named = {} THEN None ELSE SplitOn(reqs[Least(named)], <<"=", "=">>, 1)[2]

\* Whether check_llama_stack_version() ends the run, `llama stack --version`
\* having printed out.
VersionMismatch(v, out) == Truthy(expected_version(v)) /\ Strip(out) # expected_version(v)

\* The version check of main(): skipped for a source install; in
\* check_llama_stack_version() a version command that fails is a warning, a
\* mismatch ends the run.
CheckLlamaStackVersion ==
    /\ pc = "check_llama_stack_version"
    /\ \/ /\ is_install_from_source(LLAMA_STACK_VERSION)
          /\ pc' = "get_dependencies"
          /\ UNCHANGED <<exit_code, versionVars>>
       \/ /\ ~is_install_from_source(LLAMA_STACK_VERSION)
          /\ checking' = TRUE
          /\ \/ /\ pc' = "get_dependencies"
                /\ UNCHANGED <<exit_code, installed_version>>
             \/ \E out \in InstalledVersionOutputs :
                    /\ installed_version' = Strip(out)
                    /\ IF VersionMismatch(LLAMA_STACK_VERSION, out) THEN Exit(1)
                       ELSE pc' = "get_dependencies" /\ UNCHANGED exit_code
    /\ UNCHANGED <<envVars, yamlVars, docVars, stdout, todo, bucketVars, all_deps,
                   dependencies, llama_stack_install, containerfile, lineVars, tokenVars>>

\* get_dependencies(), up to the for loop: the resolver fails, or prints out.
RunResolver ==
    /\ pc = "get_dependencies"
    /\ \/ /\ Exit(1)
          /\ UNCHANGED <<stdout, todo>>
       \/ /\ \E out \in ResolverOutputs : stdout' = out /\ todo' = SplitLines(out)
          /\ pc' = "for_line"
          /\ UNCHANGED exit_code
    /\ UNCHANGED <<envVars, versionVars, yamlVars, docVars, bucketVars, all_deps, dependencies, llama_stack_install,
                   containerfile, lineVars, tokenVars>>

\* for line in result.stdout.splitlines(): strip, skip the empty line.
ForLine ==
    /\ pc = "for_line"
    /\ todo # <<>>
    /\ line' = Strip(Head(todo))
    /\ todo' = Tail(todo)
    /\ pc' = IF line' = <<>> THEN "for_line" ELSE "shlex_split"
    /\ UNCHANGED <<envVars, versionVars, yamlVars, docVars, stdout, bucketVars, all_deps, dependencies,
                   llama_stack_install, containerfile, exit_code, parts_list, packages,
                   flags, extra_index_url, full_cmd, tokenVars>>

\* parts_list = shlex.split(packages_str); nothing catches its ValueError.
ShlexSplitLine ==
    /\ pc = "shlex_split"
    /\ LET r == ShlexSplit(line) IN
        IF r.raised # "" THEN
            /\ Exit(1)
            /\ UNCHANGED <<parts_list, packages, flags, extra_index_url>>
        ELSE
            /\ parts_list' = r.value
            /\ packages' = <<>>
            /\ flags' = <<>>
            /\ extra_index_url' = None
            /\ pc' = "parse"
            /\ UNCHANGED exit_code
    /\ UNCHANGED <<envVars, versionVars, yamlVars, docVars, stdout, todo, bucketVars, all_deps, dependencies,
                   llama_stack_install, containerfile, line, full_cmd, tokenVars>>

\* The while loop: packages, flags and extra_index_url of the line.
ParsePartsList ==
    /\ pc = "parse"
    /\ LET r == ParseParts(parts_list, 1, packages, flags, extra_index_url) IN
        /\ packages' = r.packages
        /\ flags' = r.flags
        /\ extra_index_url' = r.extra_index_url
    /\ pc' = "normalize"
    /\ UNCHANGED <<envVars, versionVars, yamlVars, docVars, stdout, todo, bucketVars, all_deps, dependencies,
                   llama_stack_install, containerfile, exit_code, line, parts_list,
                   full_cmd, tokenVars>>

\* From the first sorted(set(packages)) to the second.
NormalizeLine ==
    /\ pc = "normalize"
    /\ packages' = NormalizePackages(packages)
    /\ pc' = "build"
    /\ UNCHANGED <<envVars, versionVars, yamlVars, docVars, stdout, todo, bucketVars, all_deps, dependencies,
                   llama_stack_install, containerfile, exit_code, line, parts_list, flags,
                   extra_index_url, full_cmd, tokenVars>>

\* Build the command based on flags, and append it to its bucket.
BuildCommand ==
    /\ pc = "build"
    /\ full_cmd' = FullCmd(flags, extra_index_url, packages)
    /\ LET c == Category(flags, extra_index_url) IN
        /\ standard_deps' =
               IF c = "standard_deps" THEN Append(standard_deps, full_cmd') ELSE standard_deps
        /\ torch_deps' = IF c = "torch_deps" THEN Append(torch_deps, full_cmd') ELSE torch_deps
        /\ no_deps' = IF c = "no_deps" THEN Append(no_deps, full_cmd') ELSE no_deps
        /\ no_cache' = IF c = "no_cache" THEN Append(no_cache, full_cmd') ELSE no_cache
    /\ pc' = "for_line"
    /\ UNCHANGED <<envVars, versionVars, yamlVars, docVars, stdout, todo, all_deps, dependencies, llama_stack_install,
                   containerfile, exit_code, line, parts_list, packages, flags,
                   extra_index_url, tokenVars>>

\* Combine all dependencies in specific order, and return them joined.
Assemble ==
    /\ pc = "for_line"
    /\ todo = <<>>
    /\ all_deps' = AllDeps(standard_deps, torch_deps, no_deps, no_cache)
    /\ dependencies' = Join(<<"\n">>, all_deps')
    /\ pc' = "get_llama_stack_install"
    /\ UNCHANGED <<envVars, versionVars, yamlVars, docVars, stdout, todo, bucketVars, llama_stack_install, containerfile,
                   exit_code, lineVars, tokenVars>>

\* llama_stack_install = get_llama_stack_install(LLAMA_STACK_VERSION)
GetLlamaStackInstall ==
    /\ pc = "get_llama_stack_install"
    /\ llama_stack_install' = get_llama_stack_install(LLAMA_STACK_VERSION)
    /\ pc' = "generate_containerfile"
    /\ UNCHANGED <<envVars, versionVars, yamlVars, docVars, stdout, todo, bucketVars, all_deps, dependencies,
                   containerfile, exit_code, lineVars, tokenVars>>

\* generate_containerfile(dependencies, llama_stack_install): a missing template
\* ends the run, nothing catches what str.format raises, else the file is written.
GenerateContainerfile ==
    /\ pc = "generate_containerfile"
    /\ IF template_file = None THEN Exit(1) /\ UNCHANGED containerfile
       ELSE LET r == containerfile_content(template_file, dependencies, llama_stack_install)
            IN  IF r.raised # "" THEN Exit(1) /\ UNCHANGED containerfile
                ELSE /\ containerfile' = r.value
                     /\ pc' = "generated"
                     /\ UNCHANGED exit_code
    /\ UNCHANGED <<envVars, versionVars, yamlVars, docVars, stdout, todo, bucketVars, all_deps, dependencies,
                   llama_stack_install, lineVars, tokenVars>>

\* print("Done!"), and main() returns.
Done ==
    /\ pc = "generated"
    /\ Exit(0)
    /\ UNCHANGED <<envVars, versionVars, yamlVars, docVars, stdout, todo, bucketVars, all_deps, dependencies,
                   llama_stack_install, containerfile, lineVars, tokenVars>>

Next ==
    \/ CheckUv
    \/ InstallLlamaStackFromSource
    \/ CheckLlama
    \/ CheckLlamaStackVersion
    \/ RunResolver
    \/ ForLine
    \/ ShlexSplitLine
    \/ ParsePartsList
    \/ NormalizeLine
    \/ BuildCommand
    \/ Assemble
    \/ GetLlamaStackInstall
    \/ GenerateContainerfile
    \/ Done

Spec == Init /\ [][Next]_vars

-----------------------------------------------------------------------------
(* One generated directive line through the for loop *)

InitLine ==
    /\ pc = "for_line"
    /\ LLAMA_STACK_VERSION = CURRENT_LLAMA_STACK_VERSION
    /\ template_file = ContainerfileIn
    /\ containerfile = PreviousContainerfile
    /\ dependencies = None
    /\ llama_stack_install = None
    /\ exit_code = None
    /\ \E l \in DirectiveLines : stdout = Text(<<l>>) /\ todo = SplitLines(stdout)
    /\ standard_deps = <<>>
    /\ torch_deps = <<>>
    /\ no_deps = <<>>
    /\ no_cache = <<>>
    /\ all_deps = <<>>
    /\ line = None
    /\ parts_list = <<>>
    /\ packages = <<>>
    /\ flags = <<>>
    /\ extra_index_url = None
    /\ full_cmd = None
    /\ NoToken
    /\ NoVersionCheck
    /\ NoYaml
    /\ NoDocs

NextLine ==
    \/ ForLine
    \/ ShlexSplitLine
    \/ ParsePartsList
    \/ NormalizeLine
    \/ BuildCommand
    \/ Assemble

SpecLine == InitLine /\ [][NextLine]_vars

-----------------------------------------------------------------------------
(* One generated package token through the three rewrites *)

InitNorm ==
    /\ pc = "quote"
    /\ LLAMA_STACK_VERSION = CURRENT_LLAMA_STACK_VERSION
    /\ template_file = ContainerfileIn
    /\ containerfile = PreviousContainerfile
    /\ dependencies = None
    /\ llama_stack_install = None
    /\ exit_code = None
    /\ NoLoop
    /\ package \in PackageTokens
    /\ raw_package = None
    /\ first_pass = None
    /\ NoVersionCheck
    /\ NoYaml
    /\ NoDocs

\* Add quotes to packages with > or <.
QuoteStep ==
    /\ pc = "quote"
    /\ raw_package' = package
    /\ package' = QuotePackage(package)
    /\ pc' = "milvus"
    /\ UNCHANGED <<envVars, versionVars, yamlVars, docVars, stdout, todo, bucketVars, all_deps, dependencies,
                   llama_stack_install, containerfile, exit_code, lineVars, first_pass>>

\* Modify pymilvus package to include milvus-lite extra.
MilvusStep ==
    /\ pc = "milvus"
    /\ raw_package' = package
    /\ package' = MilvusPackage(package)
    /\ pc' = "extras"
    /\ UNCHANGED <<envVars, versionVars, yamlVars, docVars, stdout, todo, bucketVars, all_deps, dependencies,
                   llama_stack_install, containerfile, exit_code, lineVars, first_pass>>

\* Convert namespace packages to extras syntax.
ExtrasStep ==
    /\ pc = "extras"
    /\ raw_package' = package
    /\ package' = ExtrasPackage(package)
    /\ pc' = "normalized"
    /\ UNCHANGED <<envVars, versionVars, yamlVars, docVars, stdout, todo, bucketVars, all_deps, dependencies,
                   llama_stack_install, containerfile, exit_code, lineVars, first_pass>>

\* The normalized token given to the three rewrites once more.
NormalizeAgain ==
    /\ pc = "normalized"
    /\ first_pass' = package
    /\ raw_package' = package
    /\ package' = NormalizePackage(package)
    /\ pc' = "renormalized"
    /\ UNCHANGED <<envVars, versionVars, yamlVars, docVars, stdout, todo, bucketVars, all_deps, dependencies,
                   llama_stack_install, containerfile, exit_code, lineVars>>

NextNorm ==
    \/ QuoteStep
    \/ MilvusStep
    \/ ExtrasStep
    \/ NormalizeAgain

SpecNorm == InitNorm /\ [][NextNorm]_vars

-----------------------------------------------------------------------------
(* generate_containerfile on a generated template *)

InitRender ==
    /\ pc = "generate_containerfile"
    /\ LLAMA_STACK_VERSION = CURRENT_LLAMA_STACK_VERSION
    /\ template_file \in Templates \cup {None}
    /\ containerfile = PreviousContainerfile
    /\ dependencies \in RecipeBodies
    /\ llama_stack_install \in InstallBlocks
    /\ exit_code = None
    /\ NoLoop
    /\ NoToken
    /\ NoVersionCheck
    /\ NoYaml
    /\ NoDocs

NextRender ==
    \/ GenerateContainerfile
    \/ Done

SpecRender == InitRender /\ [][NextRender]_vars

-----------------------------------------------------------------------------
(* Properties of the assembled RecipeBody *)

\* The elements n of s from s[from] on.
Segment(s, from, n) == SubSeq(s, from, from + n - 1)

\* How often x stands in s.
Count(x, s) == Cardinality({k \in 1..Len(s) : s[k] = x})

\* a and b hold the same instructions, each as often.
SameInstructions(a, b) ==
    /\ Len(a) = Len(b)
    /\ \A k \in 1..Len(a) : Count(a[k], a) = Count(a[k], b)

\* s is in ascending order of its strings.
Ascending(s) == \A i, j \in 1..Len(s) : i < j => StrLeq(s[i], s[j])

\* C1: the RecipeBody get_dependencies returns is the pinned instruction built
\* from PINNED_DEPENDENCIES, then the instructions of the standard bucket, then
\* those of the extra-index bucket, then those of the no-deps bucket, then those
\* of the no-cache bucket, joined by line feeds; the pinned instruction is first
\* and each bucket is in ascending order of the rendered instruction text.
BucketOrderFixed ==
    dependencies # None =>
        LET n1 == Len(standard_deps)
            n2 == Len(torch_deps)
            n3 == Len(no_deps)
            n4 == Len(no_cache)
        IN  /\ Len(all_deps) = 1 + n1 + n2 + n3 + n4
            /\ all_deps[1] = pinned_cmd
            /\ \A k \in 1..Len(PINNED_DEPENDENCIES) :
                   Contains(all_deps[1], PINNED_DEPENDENCIES[k])
            /\ SameInstructions(Segment(all_deps, 2, n1), standard_deps)
            /\ SameInstructions(Segment(all_deps, 2 + n1, n2), torch_deps)
            /\ SameInstructions(Segment(all_deps, 2 + n1 + n2, n3), no_deps)
            /\ SameInstructions(Segment(all_deps, 2 + n1 + n2 + n3, n4), no_cache)
            /\ Ascending(Segment(all_deps, 2, n1))
            /\ Ascending(Segment(all_deps, 2 + n1, n2))
            /\ Ascending(Segment(all_deps, 2 + n1 + n2, n3))
            /\ Ascending(Segment(all_deps, 2 + n1 + n2 + n3, n4))
            /\ dependencies = Join(<<"\n">>, all_deps)

\* A RecipeBody was returned whose no-deps bucket the lines had filled in
\* descending order, behind a bucket that is not empty either.
BucketOrderFixedWitness ==
    /\ dependencies # None
    /\ \/ Len(no_deps) = 2 /\ StrLess(no_deps[2], no_deps[1])
       \/ Len(no_cache) = 2 /\ StrLess(no_cache[2], no_cache[1])

\* The one-to-one maps of 1..n onto itself.
Reorderings(n) == {f \in [1..n -> 1..n] : \A i, j \in 1..n : f[i] = f[j] => i = j}

\* C3: for the lines of the resolver's output in any other order, blank lines
\* included, get_dependencies returns the same RecipeBody, byte for byte.
LineOrderIrrelevant ==
    pc = "get_llama_stack_install" =>
        LET ls == SplitLines(stdout) IN
            \A f \in Reorderings(Len(ls)) :
                get_dependencies(Text([k \in 1..Len(ls) |-> ls[f[k]]]))
                    = Returned(dependencies)

\* A RecipeBody was returned for two different lines of one bucket that came in
\* descending order of their instructions.
LineOrderIrrelevantWitness ==
    /\ pc = "get_llama_stack_install"
    /\ Len(SplitLines(stdout)) = 2
    /\ Len(standard_deps) = 2
    /\ StrLess(standard_deps[2], standard_deps[1])

\* A line whose single quote is never closed: an odd number of single quotes,
\* no double quote and no backslash.
UnterminatedQuote(l) ==
    /\ Cardinality({k \in 1..Len(l) : l[k] = "'"}) % 2 = 1
    /\ \A k \in 1..Len(l) : l[k] \notin {"\"", "\\"}

\* The resolver printed a line with malformed quoting.
MalformedOutput ==
    /\ stdout # None
    /\ \E k \in 1..Len(SplitLines(stdout)) : UnterminatedQuote(SplitLines(stdout)[k])

\* C4: when a line of the resolver's output has malformed quoting, first or
\* after well-formed lines, the for loop never completes, get_dependencies
\* returns nothing, generate_containerfile is never reached, the Containerfile
\* stays as it was, and the process ends with a non-zero status.
MalformedLineAborts ==
    MalformedOutput =>
        /\ dependencies = None
        /\ all_deps = <<>>
        /\ containerfile = PreviousContainerfile
        /\ pc \in {"for_line", "shlex_split", "parse", "normalize", "build", "exited"}
        /\ ~(pc = "for_line" /\ todo = <<>>)
        /\ pc = "exited" => exit_code = 1

\* The run ended on a malformed line that came after a well-formed one, whose
\* instruction was already in its bucket.
MalformedLineAbortsWitness ==
    /\ MalformedOutput
    /\ pc = "exited"
    /\ exit_code = 1
    /\ line = <<"'", "x">>
    /\ Len(standard_deps) + Len(torch_deps) + Len(no_deps) + Len(no_cache) = 1

-----------------------------------------------------------------------------
(* Properties of one directive line *)

RECURSIVE FlagNames(_, _)
\* The flags of the list from flgs[i] on, without the URL arguments: an index
\* flag is followed by its URL, which is passed over.
FlagNames(flgs, i) ==
    IF i > Len(flgs) THEN {}
    ELSE IF flgs[i] \in {EXTRA_INDEX_URL, INDEX_URL}
        THEN {flgs[i]} \cup FlagNames(flgs, i + 2)
    ELSE {flgs[i]} \cup FlagNames(flgs, i + 1)

\* The category by precedence ExtraIndex > NoDeps > NoCache > Standard.
CategoryByPrecedence(names) ==
    IF EXTRA_INDEX_URL \in names \/ INDEX_URL \in names THEN "torch_deps"
    ELSE IF NO_DEPS \in names THEN "no_deps"
    ELSE IF NO_CACHE \in names THEN "no_cache"
    ELSE "standard_deps"

\* C2: the instruction of a directive line lands in exactly one of the four
\* bucket lists, the one its flags alone choose: ExtraIndex when they include
\* --extra-index-url or --index-url, whatever the URL argument is, else NoDeps
\* when they include --no-deps, else NoCache when they include --no-cache, else
\* Standard.
CategoryFollowsFlags ==
    full_cmd # None =>
        LET c == CategoryByPrecedence(FlagNames(flags, 1))
        IN  /\ standard_deps = IF c = "standard_deps" THEN <<full_cmd>> ELSE <<>>
            /\ torch_deps = IF c = "torch_deps" THEN <<full_cmd>> ELSE <<>>
            /\ no_deps = IF c = "no_deps" THEN <<full_cmd>> ELSE <<>>
            /\ no_cache = IF c = "no_cache" THEN <<full_cmd>> ELSE <<>>

\* C6: every instruction appended to a bucket names at least one package, and
\* no package it names is the empty string; this holds for lines of recognized
\* flags only and for a line whose only token is an empty quoted string.
InstructionNamesPackage ==
    full_cmd # None =>
        /\ packages # <<>>
        /\ \A k \in 1..Len(packages) : packages[k] # <<>>

\* The separator between the packages of an instruction of category c.
PackageSeparator(c) == IF c = "standard_deps" THEN Continuation ELSE <<" ">>

\* C9: the package list rendered into the instruction of a directive line holds
\* the normalized strings of the line's package tokens, each once, in strictly
\* ascending order by code point: a repeated token and two tokens with one
\* normalized string appear once, tokens differing in letter case both appear.
PackagesDistinctAscending ==
    full_cmd # None =>
        LET raw == ParseParts(parts_list, 1, <<>>, <<>>, None).packages
            rendered == Join(PackageSeparator(Category(flags, extra_index_url)), packages)
        IN  /\ \A i, j \in 1..Len(packages) : i < j => StrLess(packages[i], packages[j])
            /\ Range(packages) = {NormalizePackage(raw[k]) : k \in 1..Len(raw)}
            /\ Len(rendered) <= Len(full_cmd)
            /\ SubSeq(full_cmd, Len(full_cmd) - Len(rendered) + 1, Len(full_cmd)) = rendered

\* An instruction was built for a line that gives a namespace package in both
\* spellings beside a package in capitals: two packages are rendered for the
\* three tokens.
PackagesDistinctAscendingWitness ==
    /\ full_cmd # None
    /\ InList(<<"x", ".", "y", "=", "=", "1">>, parts_list)
    /\ InList(<<"x", "[", "y", "]", "=", "=", "1">>, parts_list)
    /\ packages = <<(<<"A", "=", "=", "1">>), (<<"x", "[", "y", "]", "=", "=", "1">>)>>

-----------------------------------------------------------------------------
(* Properties of the three rewrites *)

\* C5: the three rewrites leave an already normalized package token as it is:
\* normalize(normalize(t)) = normalize(t), for tokens with a >, >=, < or <=
\* specifier and for pymilvus with another extras bracket as for any other.
NormalizationIdempotent ==
    pc = "renormalized" => package = first_pass

\* The characters of a package name.
NameChars == Letters \cup Digits \cup {"-", "_"}

\* The index of the last character of the package name of token t, which starts
\* behind the quote when the earlier step has quoted t.
NameEnd(t) ==
    LET q == IF t # <<>> /\ t[1] = "'" THEN 1 ELSE 0
    IN  Greatest({e \in q..Len(t) : \A j \in (q + 1)..e : t[j] \in NameChars})

\* The package name of token t.
PackageName(t) ==
    SubSeq(t, (IF t # <<>> /\ t[1] = "'" THEN 2 ELSE 1), NameEnd(t))

\* Token t with the milvus-lite extra directly after a package name that is
\* exactly pymilvus, when t does not declare the extra yet; else t.
WithMilvusLite(t) ==
    IF PackageName(t) = PYMILVUS /\ ~Contains(t, MILVUS_LITE)
        THEN SubSeq(t, 1, NameEnd(t)) \o MILVUS_LITE \o SubSeq(t, NameEnd(t) + 1, Len(t))
    ELSE t

\* C7: the milvus-lite step adds the extra directly after the package name when
\* that name is exactly pymilvus and the token does not declare the extra yet,
\* and it leaves every other token unchanged, also one whose package name only
\* contains pymilvus.
MilvusLiteOnlyForPymilvus ==
    pc = "extras" => package = WithMilvusLite(raw_package)

\* Where the first version operator of token t starts, 0 when t has none.
FirstOperator(t) ==
    LET at == {k \in 1..Len(t) : OperatorAt(t, k) # <<>>}
    IN  IF at = {} THEN 0 ELSE Least(at)

\* s is an identifier: a letter or underscore, then letters, digits, underscores.
IsIdentifier(s) ==
    /\ s # <<>>
    /\ s[1] \in IdentStart
    /\ \A k \in 1..Len(s) : s[k] \in IdentChar

\* Token t of the shape <name>.<suffix><op><version> as <name>[<suffix>]<op><version>,
\* any other token as it is: <op> is the first version operator of t and
\* <suffix> the identifier between the last dot before it and the operator.
WithExtrasSyntax(t) ==
    LET p == FirstOperator(t)
        dots == {d \in 1..(p - 1) : t[d] = "."}
        d == Greatest(dots)
    IN  IF p = 0 \/ dots = {} THEN t
        ELSE IF ~IsIdentifier(SubSeq(t, d + 1, p - 1)) THEN t
        ELSE SubSeq(t, 1, d - 1) \o <<"[">> \o SubSeq(t, d + 1, p - 1) \o <<"]">>
                 \o SubSeq(t, p, Len(t))

\* C8: the dotted-namespace step turns a token <name>.<suffix><op><version>,
\* <suffix> an identifier directly before the operator, into
\* <name>[<suffix>]<op><version>, inside the quotes of a quoted token, and leaves
\* every other token unchanged: dots in the version part are never rewritten.
ExtrasOnlyBeforeOperator ==
    pc = "normalized" => package = WithExtrasSyntax(raw_package)

-----------------------------------------------------------------------------
(* Properties of the written recipe *)

\* The two comment lines of the warning header.
WarningHeader == SubSeq(warning, 1, Len(warning) - 1)

\* The indices of the line breaks of text c.
Breaks(c) == {k \in 1..Len(c) : c[k] \in {"\n", "\r"}}

\* C10: the text generate_containerfile writes starts with the warning header,
\* ends with exactly one newline, and has no line that is empty or holds only
\* whitespace: from the start and from every line break but the last, a
\* character that is not whitespace comes before the next line break.
RecipeHasNoBlankLine ==
    pc = "generated" =>
        /\ StartsWith(containerfile, WarningHeader)
        /\ containerfile[Len(containerfile)] = "\n"
        /\ Len(containerfile) - 1 \notin Breaks(containerfile)
        /\ \A b \in {0} \cup (Breaks(containerfile) \ {Len(containerfile)}) :
               \E k \in (b + 1)..Len(containerfile) :
                   /\ k \in Inked(containerfile)
                   /\ \A j \in (b + 1)..k : j \notin Breaks(containerfile)

\* A recipe was written from a template with the source-install placeholder on
\* a line of its own, for a source-install block that is absent or empty.
RecipeHasNoBlankLineWitness ==
    /\ pc = "generated"
    /\ ~Truthy(llama_stack_install)
    /\ Contains(template_file, <<"\n", "{">> \o INSTALL_SOURCE_FIELD \o <<"}", "\n">>)

-----------------------------------------------------------------------------
(* Properties of the version check *)

\* A configured version that is a source install: it holds no "." or it holds
\* the build tag "+rhai".
SourceInstall(v) ==
    \/ \A k \in 1..Len(v) : v[k] # "."
    \/ \E k \in 1..(Len(v) - 4) : SubSeq(v, k, k + 4) = <<"+", "r", "h", "a", "i">>

\* The positions of main() behind the version check, the run not ended.
PastVersionCheck ==
    {"get_dependencies", "for_line", "shlex_split", "parse", "normalize", "build",
     "get_llama_stack_install", "generate_containerfile", "generated"}

\* C11: main() runs the version check if and only if the configured version is
\* no source install, i.e. holds a "." and no "+rhai". When the check runs and
\* the installed version is not the configured one, the run ends with a non-zero
\* status before get_dependencies and generate_containerfile, and the recipe is
\* not written; for a source install no installed version ends the run.
VersionCheckOnlyForReleases ==
    /\ checking => ~SourceInstall(LLAMA_STACK_VERSION)
    /\ pc \in PastVersionCheck /\ ~SourceInstall(LLAMA_STACK_VERSION) => checking
    /\ installed_version # None =>
           /\ checking
           /\ installed_version # LLAMA_STACK_VERSION =>
                  /\ pc = "exited"
                  /\ exit_code = 1
                  /\ stdout = None
                  /\ dependencies = None
                  /\ containerfile = PreviousContainerfile
    /\ SourceInstall(LLAMA_STACK_VERSION) => installed_version = None

\* The check ran for a released version and found another version installed:
\* the run has ended.
VersionCheckOnlyForReleasesWitness ==
    /\ checking
    /\ installed_version = <<"0", ".", "3", ".", "9">>
    /\ LLAMA_STACK_VERSION = <<"0", ".", "4", ".", "0">>
    /\ pc = "exited"

-----------------------------------------------------------------------------
(* scripts/gen_distro_docs.py: the version of the recipe and its link *)

\* git\+https://github\.com/
GITHUB ==
    <<"g", "i", "t", "+", "h", "t", "t", "p", "s", ":", "/", "/", "g", "i", "t", "h",
      "u", "b", ".", "c", "o", "m", "/">>

\* /llama-stack\.git@main
GIT_MAIN ==
    <<"/", "l", "l", "a", "m", "a", "-", "s", "t", "a", "c", "k", ".", "g", "i", "t",
      "@", "m", "a", "i", "n">>

\* /llama-stack\.git@
GIT_AT ==
    <<"/", "l", "l", "a", "m", "a", "-", "s", "t", "a", "c", "k", ".", "g", "i", "t",
      "@">>

\* llama-stack==
PIN ==
    <<"l", "l", "a", "m", "a", "-", "s", "t", "a", "c", "k", "=", "=">>

OPENDATAHUB_IO ==
    <<"o", "p", "e", "n", "d", "a", "t", "a", "h", "u", "b", "-", "i", "o">>

MAIN == <<"m", "a", "i", "n">>

\* The last index of the longest run of [^/] that starts at s[k], k - 1 for none.
OwnerEnd(s, k) == Greatest({e \in (k - 1)..Len(s) : \A j \in k..e : s[j] # "/"})

\* The last index of the longest run of [0-9] that starts at s[k], k - 1 for none.
DigitsEnd(s, k) == Greatest({e \in (k - 1)..Len(s) : \A j \in k..e : s[j] \in Digits})

\* The last index of the match of
\* [0-9]+\.[0-9]+\.[0-9]+(?:rc[0-9]+)?(?:\+rhai[0-9]+)? at s[k], 0 without a
\* match. No part can give a character back to the next one, so every run is
\* the longest one.
VersionEnd(s, k) ==
    LET d1 == DigitsEnd(s, k)
        d2 == DigitsEnd(s, d1 + 2)
        d3 == DigitsEnd(s, d2 + 2)
        rc == IF MatchAt(s, <<"r", "c">>, d3 + 1) /\ DigitsEnd(s, d3 + 3) >= d3 + 3
                  THEN DigitsEnd(s, d3 + 3) ELSE d3
        tag == IF MatchAt(s, RHAI, rc + 1) /\ DigitsEnd(s, rc + 6) >= rc + 6
                   THEN DigitsEnd(s, rc + 6) ELSE rc
    IN  IF /\ d1 >= k
           /\ MatchAt(s, <<".">>, d1 + 1)
           /\ d2 >= d1 + 2
           /\ MatchAt(s, <<".">>, d2 + 1)
           /\ d3 >= d2 + 2
            THEN tag
        ELSE 0

\* Where re.search finds main_pattern in content: the owner is the run of [^/]
\* behind the host, and /llama-stack.git@main follows it.
MainMatches(content) ==
    {j \in 1..Len(content) :
        /\ MatchAt(content, GITHUB, j)
        /\ OwnerEnd(content, j + Len(GITHUB)) >= j + Len(GITHUB)
        /\ MatchAt(content, GIT_MAIN, OwnerEnd(content, j + Len(GITHUB)) + 1)}

\* Where re.search finds the pattern of a pinned llama-stack==X.Y.Z.
PinMatches(content) ==
    {j \in 1..Len(content) :
        MatchAt(content, PIN, j) /\ VersionEnd(content, j + Len(PIN)) > 0}

\* Where the version of git_pattern starts for a match at content[j]: behind
\* the optional v.
GitVersionStart(content, j) ==
    LET at == OwnerEnd(content, j + Len(GITHUB)) + 1 + Len(GIT_AT)
    IN  IF MatchAt(content, <<"v">>, at) THEN at + 1 ELSE at

\* Where re.search finds git_pattern in content.
GitMatches(content) ==
    {j \in 1..Len(content) :
        /\ MatchAt(content, GITHUB, j)
        /\ OwnerEnd(content, j + Len(GITHUB)) >= j + Len(GITHUB)
        /\ MatchAt(content, GIT_AT, OwnerEnd(content, j + Len(GITHUB)) + 1)
        /\ VersionEnd(content, GitVersionStart(content, j)) > 0}

\* group(1) of main_pattern and of git_pattern for the match at content[j].
Owner(content, j) ==
    SubSeq(content, j + Len(GITHUB), OwnerEnd(content, j + Len(GITHUB)))

\* line.split()[0] for a line that holds a word.
FirstWord(l) ==
    LET a == Least(Inked(l))
    IN  SubSeq(l, a, Greatest({e \in a..Len(l) : \A j \in a..e : j \in Inked(l)}))

\* resolve_main_commit_hash(repo_url), result being what subprocess.run came to:
\* the first word of the first line of the stripped output, None for an output
\* without one and for every exception.
resolve_main_commit_hash(result) ==
    LET lines == SplitOn(Strip(result.value), <<"\n">>, 1)
    IN  IF result.raised # "" THEN None
        ELSE IF lines # <<>> /\ lines[1] # <<>> THEN FirstWord(lines[1])
        ELSE None

\* The version extract_llama_stack_version puts beside the owner, without the
\* fall back to "main".
HashAsVersion(hash) == hash

\* The version extract_llama_stack_version returns for a recipe at @main: the
\* commit hash, "main" when none was resolved.
VersionAtMain(hash) == IF Truthy(hash) THEN hash ELSE MAIN

\* c.lower() for the letters A to F, the other characters being tested as they are.
Lower(c) ==
    IF c = "A" THEN "a" ELSE IF c = "B" THEN "b" ELSE IF c = "C" THEN "c"
    ELSE IF c = "D" THEN "d" ELSE IF c = "E" THEN "e" ELSE IF c = "F" THEN "f"
    ELSE c

HexDigits == Digits \cup {"a", "b", "c", "d", "e", "f"}

\* Commit hashes are 7-40 hex characters.
is_commit_hash(v) ==
    /\ Len(v) >= 7
    /\ Len(v) <= 40
    /\ \A k \in 1..Len(v) : Lower(v[k]) \in HexDigits

HTTPS_GITHUB ==
    <<"h", "t", "t", "p", "s", ":", "/", "/", "g", "i", "t", "h", "u", "b", ".", "c",
      "o", "m", "/">>

COMMIT_URL ==
    <<"/", "l", "l", "a", "m", "a", "-", "s", "t", "a", "c", "k", "/", "c", "o", "m",
      "m", "i", "t", "/">>

TREE_MAIN_URL ==
    <<"/", "l", "l", "a", "m", "a", "-", "s", "t", "a", "c", "k", "/", "t", "r", "e",
      "e", "/", "m", "a", "i", "n">>

RELEASE_URL ==
    <<"/", "l", "l", "a", "m", "a", "-", "s", "t", "a", "c", "k", "/", "r", "e", "l",
      "e", "a", "s", "e", "s", "/", "t", "a", "g", "/", "v">>

\* version_link and version_display for the version and the owner.
VersionLink(v, owner) ==
    IF is_commit_hash(v)
        THEN [link |-> HTTPS_GITHUB \o owner \o COMMIT_URL \o v,
              display |-> SubSeq(v, 1, 7)]
    ELSE IF v = MAIN
        THEN [link |-> HTTPS_GITHUB \o owner \o TREE_MAIN_URL, display |-> v]
    ELSE [link |-> HTTPS_GITHUB \o owner \o RELEASE_URL \o v, display |-> v]

\* The header of the README up to the displayed version.
HEADER_TO_VERSION ==
    <<"<", "!", "-", "-", " ", "T", "h", "i", "s", " ", "f", "i", "l", "e", " ", "i",
      "s", " ", "a", "u", "t", "o", "m", "a", "t", "i", "c", "a", "l", "l", "y", " ",
      "g", "e", "n", "e", "r", "a", "t", "e", "d", " ", "b", "y", " ", "s", "c", "r",
      "i", "p", "t", "s", "/", "g", "e", "n", "_", "d", "i", "s", "t", "r", "o", "_",
      "d", "o", "c", ".", "p", "y", " ", "-", " ", "d", "o", " ", "n", "o", "t", " ",
      "u", "p", "d", "a", "t", "e", " ", "m", "a", "n", "u", "a", "l", "l", "y", " ",
      "-", "-", ">", "\n", "\n", "#", " ", "O", "p", "e", "n", " ", "D", "a", "t", "a",
      " ", "H", "u", "b", " ", "L", "l", "a", "m", "a", " ", "S", "t", "a", "c", "k",
      " ", "D", "i", "s", "t", "r", "i", "b", "u", "t", "i", "o", "n", " ", "I", "m",
      "a", "g", "e", "\n", "\n", "T", "h", "i", "s", " ", "i", "m", "a", "g", "e", " ",
      "c", "o", "n", "t", "a", "i", "n", "s", " ", "t", "h", "e", " ", "o", "f", "f",
      "i", "c", "i", "a", "l", " ", "O", "p", "e", "n", " ", "D", "a", "t", "a", " ",
      "H", "u", "b", " ", "L", "l", "a", "m", "a", " ", "S", "t", "a", "c", "k", " ",
      "d", "i", "s", "t", "r", "i", "b", "u", "t", "i", "o", "n", ",", " ", "w", "i",
      "t", "h", " ", "a", "l", "l", " ", "t", "h", "e", " ", "p", "a", "c", "k", "a",
      "g", "e", "s", " ", "a", "n", "d", " ", "c", "o", "n", "f", "i", "g", "u", "r",
      "a", "t", "i", "o", "n", " ", "n", "e", "e", "d", "e", "d", " ", "t", "o", " ",
      "r", "u", "n", " ", "a", " ", "L", "l", "a", "m", "a", " ", "S", "t", "a", "c",
      "k", " ", "s", "e", "r", "v", "e", "r", " ", "i", "n", " ", "a", " ", "c", "o",
      "n", "t", "a", "i", "n", "e", "r", "i", "z", "e", "d", " ", "e", "n", "v", "i",
      "r", "o", "n", "m", "e", "n", "t", ".", "\n", "\n", "T", "h", "e", " ", "i", "m",
      "a", "g", "e", " ", "i", "s", " ", "c", "u", "r", "r", "e", "n", "t", "l", "y",
      " ", "s", "h", "i", "p", "p", "i", "n", "g", " ", "w", "i", "t", "h", " ", "t",
      "h", "e", " ", "O", "p", "e", "n", " ", "D", "a", "t", "a", " ", "H", "u", "b",
      " ", "v", "e", "r", "s", "i", "o", "n", " ", "o", "f", " ", "L", "l", "a", "m",
      "a", " ", "S", "t", "a", "c", "k", " ", "v", "e", "r", "s", "i", "o", "n", " ",
      "[">>

\* The header of the README behind the link.
HEADER_REST ==
    <<")", "\n", "\n", "Y", "o", "u", " ", "c", "a", "n", " ", "s", "e", "e", " ", "a",
      "n", " ", "o", "v", "e", "r", "v", "i", "e", "w", " ", "o", "f", " ", "t", "h",
      "e", " ", "A", "P", "I", "s", " ", "a", "n", "d", " ", "P", "r", "o", "v", "i",
      "d", "e", "r", "s", " ", "t", "h", "e", " ", "i", "m", "a", "g", "e", " ", "s",
      "h", "i", "p", "s", " ", "w", "i", "t", "h", " ", "i", "n", " ", "t", "h", "e",
      " ", "t", "a", "b", "l", "e", " ", "b", "e", "l", "o", "w", ".", "\n", "\n">>

\* header, the f-string of gen_distro_docs
Header(display, link) ==
    HEADER_TO_VERSION \o display \o <<"]", "(">> \o link \o HEADER_REST

\* extract_llama_stack_version() for the text of the Containerfile, result being
\* what `git ls-remote` comes to when it is called: the version, the owner and
\* the commit hash looked up, or the exit of the process. The hash is None when
\* no lookup was made.
extract_llama_stack_version(content, result) ==
    LET m == Least(MainMatches(content))
        hash == resolve_main_commit_hash(result)
        pin == Least(PinMatches(content))
        git == Least(GitMatches(content))
    IN  IF MainMatches(content) # {}
            THEN Returned([version |-> VersionAtMain(hash),
                           repo_owner |-> Owner(content, m),
                           commit_hash |-> hash])
        ELSE IF PinMatches(content) # {}
            THEN Returned([version |-> SubSeq(content, pin + Len(PIN),
                                              VersionEnd(content, pin + Len(PIN))),
                           repo_owner |-> OPENDATAHUB_IO,
                           commit_hash |-> None])
        ELSE IF GitMatches(content) # {}
            THEN Returned([version |-> SubSeq(content, GitVersionStart(content, git),
                                              VersionEnd(content,
                                                         GitVersionStart(content, git))),
                           repo_owner |-> Owner(content, git),
                           commit_hash |-> None])
        ELSE Raised("SystemExit")

-----------------------------------------------------------------------------
(* The inputs of gen_distro_docs.py *)

\* Recipes: llama-stack at @main of two owners, the second beside a pinned
\* version; a pinned release candidate; a tag; a commit; no llama-stack at all.
DocRecipes ==
    {
    <<"R", "U", "N", " ", "u", "v", " ", "p", "i", "p", " ", "i", "n", "s", "t", "a",
      "l", "l", " ", "g", "i", "t", "+", "h", "t", "t", "p", "s", ":", "/", "/", "g",
      "i", "t", "h", "u", "b", ".", "c", "o", "m", "/", "o", "p", "e", "n", "d", "a",
      "t", "a", "h", "u", "b", "-", "i", "o", "/", "l", "l", "a", "m", "a", "-", "s",
      "t", "a", "c", "k", ".", "g", "i", "t", "@", "m", "a", "i", "n", "\n">>,
    <<"R", "U", "N", " ", "u", "v", " ", "p", "i", "p", " ", "i", "n", "s", "t", "a",
      "l", "l", " ", "g", "i", "t", "+", "h", "t", "t", "p", "s", ":", "/", "/", "g",
      "i", "t", "h", "u", "b", ".", "c", "o", "m", "/", "m", "e", "/", "l", "l", "a",
      "m", "a", "-", "s", "t", "a", "c", "k", ".", "g", "i", "t", "@", "m", "a", "i",
      "n", "\n", "R", "U", "N", " ", "u", "v", " ", "p", "i", "p", " ", "i", "n", "s",
      "t", "a", "l", "l", " ", "l", "l", "a", "m", "a", "-", "s", "t", "a", "c", "k",
      "=", "=", "0", ".", "4", ".", "0", "\n">>,
    <<"R", "U", "N", " ", "u", "v", " ", "p", "i", "p", " ", "i", "n", "s", "t", "a",
      "l", "l", " ", "l", "l", "a", "m", "a", "-", "s", "t", "a", "c", "k", "=", "=",
      "0", ".", "4", ".", "0", "r", "c", "1", "+", "r", "h", "a", "i", "0", "\n">>,
    <<"R", "U", "N", " ", "u", "v", " ", "p", "i", "p", " ", "i", "n", "s", "t", "a",
      "l", "l", " ", "g", "i", "t", "+", "h", "t", "t", "p", "s", ":", "/", "/", "g",
      "i", "t", "h", "u", "b", ".", "c", "o", "m", "/", "m", "e", "/", "l", "l", "a",
      "m", "a", "-", "s", "t", "a", "c", "k", ".", "g", "i", "t", "@", "v", "0", ".",
      "4", ".", "0", "\n">>,
    <<"R", "U", "N", " ", "u", "v", " ", "p", "i", "p", " ", "i", "n", "s", "t", "a",
      "l", "l", " ", "g", "i", "t", "+", "h", "t", "t", "p", "s", ":", "/", "/", "g",
      "i", "t", "h", "u", "b", ".", "c", "o", "m", "/", "m", "e", "/", "l", "l", "a",
      "m", "a", "-", "s", "t", "a", "c", "k", ".", "g", "i", "t", "@", "a", "b", "c",
      "1", "2", "3", "4", "\n">>,
     PreviousContainerfile}

\* What `git ls-remote <repo_url> main` prints when it succeeds: nothing, a
\* blank line, the hash of main, two refs, a hash of 64 digits.
LsRemoteOutputs ==
    {<<>>,
     <<"\n">>,
    <<"0", "1", "2", "3", "4", "5", "6", "7", "8", "9", "a", "b", "c", "d", "e", "f",
      "0", "1", "2", "3", "4", "5", "6", "7", "8", "9", "A", "B", "C", "D", "E", "F",
      "0", "1", "2", "3", "4", "5", "6", "7", "\t", "r", "e", "f", "s", "/", "h", "e",
      "a", "d", "s", "/", "m", "a", "i", "n", "\n">>,
    <<"8", "9", "a", "b", "c", "d", "e", "f", "0", "1", "2", "3", "4", "5", "6", "7",
      "8", "9", "a", "b", "c", "d", "e", "f", "0", "1", "2", "3", "4", "5", "6", "7",
      "8", "9", "a", "b", "c", "d", "e", "f", "\t", "r", "e", "f", "s", "/", "h", "e",
      "a", "d", "s", "/", "m", "a", "i", "n", "\n", "0", "1", "2", "3", "4", "5", "6",
      "7", "8", "9", "a", "b", "c", "d", "e", "f", "0", "1", "2", "3", "4", "5", "6",
      "7", "8", "9", "a", "b", "c", "d", "e", "f", "0", "1", "2", "3", "4", "5", "6",
      "7", "\t", "r", "e", "f", "s", "/", "r", "e", "m", "o", "t", "e", "s", "/", "m",
      "a", "i", "n", "\n">>,
    <<"0", "1", "2", "3", "4", "5", "6", "7", "8", "9", "a", "b", "c", "d", "e", "f",
      "0", "1", "2", "3", "4", "5", "6", "7", "8", "9", "a", "b", "c", "d", "e", "f",
      "0", "1", "2", "3", "4", "5", "6", "7", "8", "9", "a", "b", "c", "d", "e", "f",
      "0", "1", "2", "3", "4", "5", "6", "7", "8", "9", "a", "b", "c", "d", "e", "f",
      "\t", "r", "e", "f", "s", "/", "h", "e", "a", "d", "s", "/", "m", "a", "i", "n",
      "\n">>}

\* What subprocess.run comes to at gen_distro_docs.py:16: an output, or the
\* exception of a failed command, of the timeout, of a missing git.
LsRemoteResults ==
    {Returned(out) : out \in LsRemoteOutputs}
        \cup {Raised("CalledProcessError"), Raised("TimeoutExpired"),
              Raised("FileNotFoundError")}

\* The providers section of run.yaml, one character for each provider: none, one.
RunYamls == {<<>>, <<"p">>}

\* build.yaml, one character for each external provider: none.
BuildYamls == {<<>>}

TABLE_HEAD ==
    <<"|", " ", "A", "P", "I", " ", "|", " ", "P", "r", "o", "v", "i", "d", "e", "r",
      " ", "|", " ", "E", "x", "t", "e", "r", "n", "a", "l", "?", " ", "|", " ", "E",
      "n", "a", "b", "l", "e", "d", " ", "b", "y", " ", "d", "e", "f", "a", "u", "l",
      "t", "?", " ", "|", " ", "H", "o", "w", " ", "t", "o", " ", "e", "n", "a", "b",
      "l", "e", " ", "|", "\n", "|", "-", "-", "-", "-", "-", "|", "-", "-", "-", "-",
      "-", "-", "-", "-", "-", "-", "|", "-", "-", "-", "-", "-", "-", "-", "-", "-",
      "-", "-", "|", "-", "-", "-", "-", "-", "-", "-", "-", "-", "-", "-", "-", "-",
      "-", "-", "-", "-", "-", "-", "-", "-", "|", "-", "-", "-", "-", "-", "-", "-",
      "-", "-", "-", "-", "-", "-", "-", "-", "|">>

\* The row of a provider that is enabled by default; "<U+2705>" stands for the
\* check mark.
TABLE_ROW ==
    <<"\n", "|", " ", "i", "n", "f", "e", "r", "e", "n", "c", "e", " ", "|", " ", "r",
      "e", "m", "o", "t", "e", ":", ":", "v", "l", "l", "m", " ", "|", " ", "N", "o",
      " ", "|", " ">> \o <<"<U+2705>">>
        \o
    <<" ", "|", " ", "N", "/", "A", " ", "|">>

\* gen_distro_table(providers): the table does not depend on the version, the
\* model takes it as the head and one row for each provider.
gen_distro_table(providers) ==
    TABLE_HEAD \o Concat([k \in 1..Len(providers) |-> TABLE_ROW])

-----------------------------------------------------------------------------
(* gen_distro_docs() *)

InitDocs ==
    /\ pc = "gen_distro_docs"
    /\ LLAMA_STACK_VERSION = CURRENT_LLAMA_STACK_VERSION
    /\ template_file = ContainerfileIn
    /\ containerfile \in DocRecipes \cup {None}
    /\ dependencies = None
    /\ llama_stack_install = None
    /\ exit_code = None
    /\ NoLoop
    /\ NoToken
    /\ NoVersionCheck
    /\ run_yaml \in RunYamls \cup {None}
    /\ build_yaml \in BuildYamls \cup {None}
    /\ NoDocs

\* What gen_distro_docs.py never touches.
buildVars ==
    <<envVars, versionVars, stdout, todo, bucketVars, all_deps, dependencies,
      llama_stack_install, containerfile, lineVars, tokenVars>>

\* check if run.yaml exists: gen_distro_docs returns 1 without it.
GenDistroDocs ==
    /\ pc = "gen_distro_docs"
    /\ IF run_yaml = None THEN Exit(1)
       ELSE pc' = "extract_llama_stack_version" /\ UNCHANGED exit_code
    /\ UNCHANGED <<buildVars, yamlVars, docVars>>

\* version, repo_owner = extract_llama_stack_version(): for a recipe at @main
\* with the call of resolve_main_commit_hash, whatever `git ls-remote` comes to.
ExtractLlamaStackVersion ==
    /\ pc = "extract_llama_stack_version"
    /\ IF containerfile = None
           THEN Exit(1) /\ UNCHANGED <<ls_remote, commit_hash, repo_owner, version>>
       ELSE \E result \in IF MainMatches(containerfile) # {} THEN LsRemoteResults
                          ELSE {NoLookup} :
           LET r == extract_llama_stack_version(containerfile, result) IN
               IF r.raised # ""
                   THEN Exit(1) /\ UNCHANGED <<ls_remote, commit_hash, repo_owner, version>>
               ELSE /\ ls_remote' = result
                    /\ commit_hash' = r.value.commit_hash
                    /\ repo_owner' = r.value.repo_owner
                    /\ version' = r.value.version
                    /\ pc' = "version_link"
                    /\ UNCHANGED exit_code
    /\ UNCHANGED <<buildVars, yamlVars, version_link, version_display, readme>>

\* Determine the link based on whether version is a commit hash or a version tag.
DetermineLink ==
    /\ pc = "version_link"
    /\ version_link' = VersionLink(version, repo_owner).link
    /\ version_display' = VersionLink(version, repo_owner).display
    /\ pc' = "write_readme"
    /\ UNCHANGED <<buildVars, yamlVars, exit_code, ls_remote, commit_hash, repo_owner,
                   version, readme>>

\* The try block of gen_distro_docs: no providers is an error, a missing
\* build.yaml ends the process inside gen_distro_table, else the README is
\* written and gen_distro_docs returns 0.
WriteReadme ==
    /\ pc = "write_readme"
    /\ IF run_yaml = <<>> \/ build_yaml = None THEN Exit(1) /\ UNCHANGED readme
       ELSE /\ readme' = Header(version_display, version_link)
                             \o gen_distro_table(run_yaml) \o <<"\n">>
            /\ Exit(0)
    /\ UNCHANGED <<buildVars, yamlVars, ls_remote, commit_hash, repo_owner, version,
                   version_link, version_display>>

NextDocs ==
    \/ GenDistroDocs
    \/ ExtractLlamaStackVersion
    \/ DetermineLink
    \/ WriteReadme

SpecDocs == InitDocs /\ [][NextDocs]_vars

-----------------------------------------------------------------------------
(* Properties of the lookup of the commit of main *)

\* The lookup of the commit failed: the command raised, ran out of time or
\* could not be started, or it printed nothing but whitespace.
LookupFailed ==
    \/ ls_remote.raised # ""
    \/ \A k \in 1..Len(ls_remote.value) : IsSpace(ls_remote.value[k])

\* The markdown link of the README to the main branch of the owner's repository.
MainBranchLink ==
    <<"[", "m", "a", "i", "n", "]", "(">> \o HTTPS_GITHUB \o repo_owner \o TREE_MAIN_URL
        \o <<")">>

\* C12: for a recipe with llama-stack at @main, a lookup of the commit that
\* fails in any way is not fatal: no hash is returned, the version is "main"
\* with the owner named in the recipe, the link is the one to tree/main, and the
\* run goes on to write the README with that link unless run.yaml has no
\* providers or build.yaml is missing; a version other than "main" is the first
\* word the lookup printed, so the hash is used only when the lookup succeeded.
LookupFailureNotFatal ==
    ls_remote # NoLookup =>
        /\ Contains(containerfile, GITHUB \o repo_owner \o GIT_MAIN)
        /\ LookupFailed =>
               /\ commit_hash = None
               /\ version = MAIN
               /\ pc # "exited" => exit_code = None
               /\ pc \in {"write_readme", "exited"} =>
                      /\ version_link = HTTPS_GITHUB \o repo_owner \o TREE_MAIN_URL
                      /\ version_display = MAIN
               /\ pc = "exited" =>
                      IF run_yaml # <<>> /\ build_yaml # None
                          THEN exit_code = 0 /\ Contains(readme, MainBranchLink)
                      ELSE exit_code = 1 /\ readme = None
        /\ version # MAIN =>
               /\ ~LookupFailed
               /\ version = commit_hash
               /\ StartsWith(Strip(ls_remote.value), version)

\* The lookup ran out of time for the recipe of another owner, and the README
\* was written with the link to that owner's main branch.
LookupFailureNotFatalWitness ==
    /\ ls_remote = Raised("TimeoutExpired")
    /\ repo_owner = <<"m", "e">>
    /\ pc = "exited"
    /\ exit_code = 0
    /\ readme # None

====
